---- MODULE Spec2Model ----
(***************************************************************************)
(* Attendance submission, offline reconciliation and student summaries of  *)
(* the QR attendance backend (student attendance controller).              *)
(*                                                                         *)
(* Every request handler is an async function: it runs without             *)
(* interruption up to its next `await`, and other requests may run while   *)
(* it waits.  A request therefore is a small process with a program        *)
(* counter naming the await it is waiting on; one action is the code that  *)
(* runs when that await resolves, up to the next await or the response.    *)
(***************************************************************************)
EXTENDS Integers, Sequences, FiniteSets, TLC

(* ------------------------------- bounds -------------------------------- *)
MaxRecords == 3
MaxTime == 2
MaxBatch == 2
MaxUsers == 3

\* Largest sample image, in MB, that is sent to the face comparison.
MaxImageMB == 5

(* ----------------------------- JS values ------------------------------- *)
Undefined == "undefined"
JsTrue == "true"
JsFalse == "false"
JsTrueString == "'true'"

(* ------------------------- directory contents -------------------------- *)
Slots == {1, 2}
Students == {"s1", "s2"}
Classes == {"c1", "c2"}
NoKey == "null"
NoId == "null"

\* User documents: s1 has a registered face image, s2 has none
\* (faceImageS3Key defaults to null).
Users ==
  { [id |-> "s1", faceImageS3Key |-> "faces/s1.jpg"],
    [id |-> "s2", faceImageS3Key |-> NoKey] }

\* QRCodeSession documents.  _id is the document's ObjectId, sessionId the
\* token string carried by the QR code; the two are different values.
QRCodeSessions ==
  { [_id |-> "o1", sessionId |-> "t1", classId |-> "c1", isActive |-> TRUE,
     sessionExpiresAt |-> 2],
    [_id |-> "o2", sessionId |-> "t2", classId |-> "c2", isActive |-> TRUE,
     sessionExpiresAt |-> 1],
    [_id |-> "o3", sessionId |-> "t3", classId |-> "c1", isActive |-> FALSE,
     sessionExpiresAt |-> 3] }

NoResp == [code |-> 0, msg |-> ""]
Resp(code, msg) == [code |-> code, msg |-> msg]
Idle == [op |-> "none", pc |-> "idle"]

VARIABLES records, now, req, enrollments, accounts
vars == <<records, now, req, enrollments, accounts>>

(* --------------------------- request bodies ---------------------------- *)
\* Bodies of POST /api/student/attendance.  faceImage is the size in MB of
\* the decoded image, 0 for an absent or empty string.
SubmitBody(sessionId, classId, coords, liveness, faceImage) ==
  [sessionId |-> sessionId, classId |-> classId,
   studentCoordinates |-> coords, livenessPassed |-> liveness,
   faceImage |-> faceImage]

\* Bodies that pass the input validation.
GoodBodies ==
  { SubmitBody("t1", "c1", TRUE, JsTrue, 1),
    SubmitBody("t2", "c2", TRUE, JsTrue, MaxImageMB) }

\* Bodies that name no usable session or break one validation rule, or two.
BadBodies ==
  { SubmitBody("t3", "c1", TRUE, JsTrue, 1),
    SubmitBody("t1", "c2", TRUE, JsTrue, 1),
    SubmitBody(Undefined, "c1", TRUE, JsTrue, 1),
    SubmitBody("t1", "c1", FALSE, JsTrue, 1),
    SubmitBody("t1", "c1", TRUE, JsFalse, 1),
    SubmitBody("t1", "c1", TRUE, JsTrueString, 1),
    SubmitBody("t2", Undefined, TRUE, JsFalse, 1),
    SubmitBody("t2", "c2", TRUE, JsFalse, 0),
    SubmitBody("t1", "c1", TRUE, JsTrue, MaxImageMB + 1) }

SubmitBodies == GoodBodies \cup BadBodies

\* One offline claim of POST /api/student/attendance/sync; timestamp is the
\* time the device captured it.
ClaimAt(sessionId, classId, timestamp) ==
  [sessionId |-> sessionId, classId |-> classId, timestamp |-> timestamp]
Claim(sessionId, classId) == ClaimAt(sessionId, classId, 0)

\* The session ids a client can put in a claim: the _id of a session, or
\* the token string it scanned.
Claims == { Claim("o1", "c1"), Claim("o2", "c2") }

RECURSIVE SeqsUpTo(_, _)
SeqsUpTo(S, n) ==
  IF n = 0 THEN {<<>>}
  ELSE LET shorter == SeqsUpTo(S, n - 1)
       IN shorter \cup { Append(q, x) : q \in shorter, x \in S }

\* req.body.attendances: a list of claims, or something that is no array.
Payload(isArray, items) == [isArray |-> isArray, items |-> items]
SyncPayloads ==
  { Payload(TRUE, q) : q \in SeqsUpTo(Claims, MaxBatch) }
    \cup { Payload(FALSE, <<>>) }

(* ------------------------------ the store ------------------------------ *)
\* Mutant: a lookup that leaves the student's own records out.
FindAttendance_OtherStudents(recs, studentId, sessionId) ==
  \E i \in 1..Len(recs) :
    recs[i].studentId # studentId /\ recs[i].sessionId = sessionId

\* Mutant: a lookup whose filter matches nothing.
FindAttendance_Never(recs, studentId, sessionId) == FALSE

\* Attendance.findOne({ studentId, sessionId })
FindAttendance(recs, studentId, sessionId) ==
  \E i \in 1..Len(recs) :
    recs[i].studentId = studentId /\ recs[i].sessionId = sessionId

\* Mutant: a collection without the unique index.
DuplicateKey_NoIndex(recs, doc) == FALSE

\* The unique index of the attendance collection on (studentId, sessionId):
\* TRUE when inserting doc would violate it.  A document without sessionId
\* is indexed with the value null.
DuplicateKey(recs, doc) ==
  \E i \in 1..Len(recs) :
    recs[i].studentId = doc.studentId /\ recs[i].sessionId = doc.sessionId

\* new Attendance({...}): the schema defaults fill what the caller left out.
NewAttendance(studentId, classId, sessionId, status, manualEntry, synced) ==
  [studentId |-> studentId, classId |-> classId, sessionId |-> sessionId,
   status |-> IF status = Undefined THEN "present" ELSE status,
   manualEntry |-> manualEntry, synced |-> synced]

\* doc.save(): "ok", or the error it rejects with.  storeUp is FALSE when
\* the store is unreachable for this call.
SaveResult(recs, doc, storeUp) ==
  IF ~storeUp THEN "unavailable"
  ELSE IF DuplicateKey(recs, doc) THEN "E11000"
  ELSE "ok"

\* The record submitAttendance builds (lines 85-99) for student studentId,
\* body b and the session found, at time t.  origin names the handler that
\* built a record; it is kept for the properties only.
SubmitDoc(studentId, b, qrSession, t) ==
  NewAttendance(studentId, b.classId, qrSession, Undefined, FALSE, FALSE)
    @@ [timestamp |-> t, origin |-> "submit"]

\* Mutant: a record stamped with the time of the reconciliation.
SyncDoc_ReconcileTime(studentId, c) ==
  NewAttendance(studentId, c.classId, c.sessionId, Undefined, FALSE, TRUE)
    @@ [timestamp |-> now, origin |-> "sync"]

\* The record syncAttendance builds (lines 143-154) for claim c.
SyncDoc(studentId, c) ==
  NewAttendance(studentId, c.classId, c.sessionId, Undefined, FALSE, TRUE)
    @@ [timestamp |-> c.timestamp, origin |-> "sync"]

\* The record createManualAttendance builds (lines 548-556) for body b.
ManualDoc(b) ==
  NewAttendance(b.studentId, b.classId, NoId, b.status, TRUE, FALSE)
    @@ [timestamp |-> b.timestamp, origin |-> "manual"]

\* User.findById(id): the user's face key, NoKey when there is no such user
\* or no registered face.
FaceKeyOf(id) ==
  IF \E u \in Users : u.id = id
  THEN (CHOOSE u \in Users : u.id = id).faceImageS3Key
  ELSE NoKey

\* Mutant: a filter without the sessionExpiresAt condition.
SessionMatches_NoExpiry(q, sessionId, classId, t) ==
  /\ q.sessionId = sessionId
  /\ q.classId = classId
  /\ q.isActive

SessionMatches(q, sessionId, classId, t) ==
  /\ q.sessionId = sessionId
  /\ q.classId = classId
  /\ q.isActive
  /\ q.sessionExpiresAt > t

\* QRCodeSession.findOne({sessionId, classId, isActive: true,
\* sessionExpiresAt: {$gt: t}}): the _id of the session found, or NoId.
FindQRSession(sessionId, classId, t) ==
  IF \E q \in QRCodeSessions : SessionMatches(q, sessionId, classId, t)
  THEN (CHOOSE q \in QRCodeSessions : SessionMatches(q, sessionId, classId, t))._id
  ELSE NoId

(* --------------------------- submitAttendance -------------------------- *)
\* The _id of the session a body names by token and class, whatever its
\* isActive and sessionExpiresAt; NoId when there is none.
NamedSession(b) ==
  IF \E q \in QRCodeSessions : q.sessionId = b.sessionId /\ q.classId = b.classId
  THEN (CHOOSE q \in QRCodeSessions :
          q.sessionId = b.sessionId /\ q.classId = b.classId)._id
  ELSE NoId

\* History of a request, kept for the properties only: whether the student
\* already had a record for the session the body names when the request
\* arrived (hadRecord), and whether that session's expiry time was in the
\* past then (wasExpired).
NamedExpired(b, t) ==
  \E q \in QRCodeSessions :
    q.sessionId = b.sessionId /\ q.classId = b.classId /\ q.sessionExpiresAt <= t

HasRecordFor(recs, studentId, b) ==
  /\ NamedSession(b) # NoId
  /\ \E i \in 1..Len(recs) :
       recs[i].studentId = studentId /\ recs[i].sessionId = NamedSession(b)

\* Mutant: no required-field test.
MissingRequired_Never(b) == FALSE

\* Line 34: !sessionId || !classId || !studentCoordinates || !faceImage
MissingRequired(b) ==
  \/ b.sessionId = Undefined
  \/ b.classId = Undefined
  \/ ~b.studentCoordinates
  \/ b.faceImage = 0

\* Mutant: a truthiness test in place of the strict comparison.
LivenessOk_Truthy(v) == v # JsFalse

LivenessOk(v) == v = JsTrue

\* Mutant: no size limit.
ImageTooLarge_Never(sizeMB) == FALSE

\* Line 56: imageSizeInMB > 5
ImageTooLarge(sizeMB) == sizeMB > MaxImageMB

\* What compareFaces can do: resolve true or false, or reject with an error
\* whose message contains 'Face could not be verified', or with another.
CompareOutcomes == {"match", "nomatch", "throwFaceMsg", "throwOther"}

\* The catch block of submitAttendance.
SubmitCatch(err) ==
  IF err = "throwFaceMsg" THEN Resp(401, "Face could not be verified")
  ELSE Resp(500, err)

Busy(r) == req[r].pc \notin {"idle", "done"}

\* Records the requests in flight may still insert.
Pending(r) ==
  IF ~Busy(r) THEN 0
  ELSE IF req[r].op = "sync" THEN Len(req[r].attendances) - req[r].idx + 1
  ELSE IF req[r].op = "submit" THEN 1
  ELSE 0

Room(n) == Len(records) + Pending(1) + Pending(2) + n <= MaxRecords

Finish(r, resp) == req' = [req EXCEPT ![r].pc = "done", ![r].resp = resp]

\* Lines 14-42: destructure, validate, start User.findById.
SubmitStart(r, bodies, students) ==
  /\ ~Busy(r)
  /\ Room(1)
  /\ \E b \in bodies, s \in students :
       LET q == [op |-> "submit", pc |-> "findUser", studentId |-> s,
                 body |-> b, face |-> "none", qrSession |-> NoId,
                 created |-> 0, resp |-> NoResp,
                 compareCalls |-> 0, stamp |-> 0,
                 wasExpired |-> NamedExpired(b, now),
                 hadRecord |-> HasRecordFor(records, s, b)]
       IN req' = [req EXCEPT ![r] =
            IF MissingRequired(b)
            THEN [q EXCEPT !.pc = "done", !.resp = Resp(400, "missing")]
            ELSE IF ~LivenessOk(b.livenessPassed)
            THEN [q EXCEPT !.pc = "done", !.resp = Resp(400, "liveness")]
            ELSE q]
  /\ UNCHANGED <<records, now, enrollments, accounts>>

\* Lines 42-60: the student is found; size check; start compareFaces.
SubmitFindUser(r) ==
  /\ req[r].op = "submit" /\ req[r].pc = "findUser"
  /\ IF FaceKeyOf(req[r].studentId) = NoKey
     THEN Finish(r, Resp(404, "noface"))
     ELSE IF ImageTooLarge(req[r].body.faceImage)
     THEN Finish(r, Resp(400, "size"))
     ELSE req' = [req EXCEPT ![r].pc = "compare", ![r].compareCalls = @ + 1]
  /\ UNCHANGED <<records, now, enrollments, accounts>>

\* Lines 60-73: compareFaces settles; start QRCodeSession.findOne, whose
\* filter holds the time of this moment.
SubmitCompare(r) ==
  /\ req[r].op = "submit" /\ req[r].pc = "compare"
  /\ \E out \in CompareOutcomes :
       IF out = "match"
       THEN req' = [req EXCEPT ![r].pc = "findSession", ![r].face = out,
                      ![r].qrSession =
                         FindQRSession(req[r].body.sessionId,
                                       req[r].body.classId, now)]
       ELSE IF out = "nomatch"
       THEN req' = [req EXCEPT ![r].pc = "done", ![r].face = out,
                      ![r].resp = Resp(401, "nomatch")]
       ELSE req' = [req EXCEPT ![r].pc = "done", ![r].face = out,
                      ![r].resp = SubmitCatch(out)]
  /\ UNCHANGED <<records, now, enrollments, accounts>>

\* Lines 75-79: the session lookup returns; start Attendance.findOne.
SubmitFindSession(r) ==
  /\ req[r].op = "submit" /\ req[r].pc = "findSession"
  /\ IF req[r].qrSession = NoId
     THEN Finish(r, Resp(400, "session"))
     ELSE req' = [req EXCEPT ![r].pc = "findExisting"]
  /\ UNCHANGED <<records, now, enrollments, accounts>>

\* Lines 79-101: the duplicate lookup returns; build the record, start save.
SubmitFindExisting(r) ==
  /\ req[r].op = "submit" /\ req[r].pc = "findExisting"
  /\ IF FindAttendance(records, req[r].studentId, req[r].qrSession)
     THEN Finish(r, Resp(409, "duplicate"))
     ELSE req' = [req EXCEPT ![r].pc = "save", ![r].stamp = now]
  /\ UNCHANGED <<records, now, enrollments, accounts>>

\* Lines 101-106 and 108-114: the save settles.
SubmitSave(r) ==
  /\ req[r].op = "submit" /\ req[r].pc = "save"
  /\ \E storeUp \in BOOLEAN :
       LET doc == SubmitDoc(req[r].studentId, req[r].body, req[r].qrSession,
                            req[r].stamp)
           res == SaveResult(records, doc, storeUp)
       IN IF res = "ok"
          THEN /\ records' = Append(records, doc)
               /\ req' = [req EXCEPT ![r].pc = "done", ![r].created = 1,
                            ![r].stamp = 0,
                            ![r].resp = Resp(201, "created")]
          ELSE /\ req' = [req EXCEPT ![r].pc = "done", ![r].stamp = 0,
                            ![r].resp = SubmitCatch(res)]
               /\ UNCHANGED records
  /\ UNCHANGED <<now, enrollments, accounts>>

(* ---------------------------- syncAttendance --------------------------- *)
SkipOutcome(sessionId) ==
  [sessionId |-> sessionId, status |-> "skipped", message |-> "Already exists."]
SuccessOutcome(sessionId) ==
  [sessionId |-> sessionId, status |-> "success", message |-> Undefined]

\* After one claim is handled: the next lookup, or the 200 response.
SyncAdvance(q, outcome, made) ==
  LET q1 == [q EXCEPT !.syncResults = Append(@, outcome),
                      !.idx = @ + 1, !.created = @ + made]
  IN IF q1.idx > Len(q1.attendances)
     THEN [q1 EXCEPT !.pc = "done", !.resp = Resp(200, "Sync completed.")]
     ELSE [q1 EXCEPT !.pc = "lookup"]

\* The catch block of syncAttendance: a 500 that carries no results.
SyncCatch(q, err) ==
  [q EXCEPT !.pc = "done", !.resp = Resp(500, err), !.syncResults = <<>>]

\* Mutant: a validation that forgets the empty list.
PayloadInvalid_NotArrayOnly(p) == ~p.isArray

\* Line 128: !Array.isArray(attendances) || attendances.length === 0
PayloadInvalid(p) == ~p.isArray \/ Len(p.items) = 0

\* Lines 123-136: validate the payload, start the first lookup; a loop over
\* no claims falls through to the 200 of line 160.
SyncStart(r, payloads, students) ==
  /\ ~Busy(r)
  /\ \E p \in payloads, s \in students :
       /\ Room(Len(p.items))
       /\ LET q == [op |-> "sync", pc |-> "lookup", studentId |-> s,
                    isArray |-> p.isArray, attendances |-> p.items,
                    idx |-> 1, syncResults |-> <<>>, created |-> 0,
                    resp |-> NoResp]
          IN req' = [req EXCEPT ![r] =
               IF PayloadInvalid(p)
               THEN [q EXCEPT !.pc = "done", !.resp = Resp(400, "nothing")]
               ELSE IF Len(p.items) = 0
               THEN [q EXCEPT !.pc = "done",
                              !.resp = Resp(200, "Sync completed.")]
               ELSE q]
  /\ UNCHANGED <<records, now, enrollments, accounts>>

\* Lines 136-156: the lookup of claim idx returns.
SyncLookup(r) ==
  /\ req[r].op = "sync" /\ req[r].pc = "lookup"
  /\ LET c == req[r].attendances[req[r].idx]
     IN req' = [req EXCEPT ![r] =
          IF FindAttendance(records, req[r].studentId, c.sessionId)
          THEN SyncAdvance(req[r], SkipOutcome(c.sessionId), 0)
          ELSE [req[r] EXCEPT !.pc = "save"]]
  /\ UNCHANGED <<records, now, enrollments, accounts>>

\* Lines 156-168: the save of claim idx settles.
SyncSave(r) ==
  /\ req[r].op = "sync" /\ req[r].pc = "save"
  /\ \E storeUp \in BOOLEAN :
       LET c == req[r].attendances[req[r].idx]
           doc == SyncDoc(req[r].studentId, c)
           res == SaveResult(records, doc, storeUp)
       IN IF res = "ok"
          THEN /\ records' = Append(records, doc)
               /\ req' = [req EXCEPT ![r] =
                    SyncAdvance(req[r], SuccessOutcome(c.sessionId), 1)]
          ELSE /\ req' = [req EXCEPT ![r] = SyncCatch(req[r], res)]
               /\ UNCHANGED records
  /\ UNCHANGED <<now, enrollments, accounts>>

(* ----------------------- createManualAttendance ------------------------ *)
ManualBody(studentId, classId, status) ==
  [studentId |-> studentId, classId |-> classId, status |-> status,
   timestamp |-> 0]

\* Lines 544-565: one await, the save.
CreateManualAttendance(r, bodies) ==
  /\ ~Busy(r)
  /\ Room(1)
  /\ \E b \in bodies, storeUp \in BOOLEAN :
       LET doc == ManualDoc(b)
           res == SaveResult(records, doc, storeUp)
           q == [op |-> "manual", pc |-> "done", body |-> b, created |-> 0,
                 resp |-> NoResp]
       IN IF res = "ok"
          THEN /\ records' = Append(records, doc)
               /\ req' = [req EXCEPT ![r] =
                    [q EXCEPT !.created = 1, !.resp = Resp(201, "created")]]
          ELSE /\ req' = [req EXCEPT ![r] = [q EXCEPT !.resp = Resp(500, res)]]
               /\ UNCHANGED records
  /\ UNCHANGED <<now, enrollments, accounts>>

(* --------------------------- updateAttendance -------------------------- *)
\* Mutant: any status is accepted.
ValidStatus_Any(status) == TRUE

\* Line 525: ['present', 'absent', 'late'].includes(status)
ValidStatus(status) == status \in {"present", "absent", "late"}

\* Lines 520-540: one await, findByIdAndUpdate(id, {status}).
UpdateAttendance(r, statuses) ==
  /\ ~Busy(r)
  /\ \E id \in 1..MaxRecords, status \in statuses :
       LET q == [op |-> "update", pc |-> "done", id |-> id,
                 status |-> status, created |-> 0, resp |-> NoResp]
       IN IF ~ValidStatus(status)
          THEN /\ req' = [req EXCEPT ![r] =
                    [q EXCEPT !.resp = Resp(400, "Invalid status.")]]
               /\ UNCHANGED records
          ELSE IF id > Len(records)
          THEN /\ req' = [req EXCEPT ![r] =
                    [q EXCEPT !.resp = Resp(404, "Record not found.")]]
               /\ UNCHANGED records
          ELSE /\ records' = [records EXCEPT ![id].status = status]
               /\ req' = [req EXCEPT ![r] = [q EXCEPT !.resp = Resp(200, "updated")]]
  /\ UNCHANGED <<now, enrollments, accounts>>

(* ------------------------- student summaries --------------------------- *)
\* ClassEnrollment.find({ studentId }).map(e => e.classId)
EnrolledClassIds(studentId) ==
  { e.classId : e \in { x \in enrollments : x.studentId = studentId } }

\* Attendance.distinct('sessionId', { classId: { $in: classIds } }): the
\* values of sessionId in the matching documents; a document without the
\* field contributes nothing.
RECURSIVE DistinctSessionIds(_, _)
DistinctSessionIds(recs, classIds) ==
  IF recs = <<>> THEN {}
  ELSE LET rest == DistinctSessionIds(Tail(recs), classIds)
           d == Head(recs)
       IN IF d.classId \in classIds /\ d.sessionId # NoId
          THEN rest \cup {d.sessionId}
          ELSE rest

\* Mutant: counting the matching documents instead of their distinct
\* session ids.
HeldSessions_CountAll(recs, classIds) ==
  Cardinality({ i \in 1..Len(recs) : recs[i].classId \in classIds })

HeldSessions(recs, classIds) == Cardinality(DistinctSessionIds(recs, classIds))

\* Attendance.countDocuments({ studentId, classId: { $in: classIds } })
RECURSIVE CountDocuments(_, _, _)
CountDocuments(recs, studentId, classIds) ==
  IF recs = <<>> THEN 0
  ELSE CountDocuments(Tail(recs), studentId, classIds)
       + (IF Head(recs).studentId = studentId /\ Head(recs).classId \in classIds
          THEN 1 ELSE 0)

\* parseFloat((n / d).toFixed(2)), in hundredths: the nearest, the larger
\* of two equally near.
ToFixed2(n, d) == (200 * n + d) \div (2 * d)

\* Mutant: the full report's convention, 0 when nothing was held.
Percentage_ZeroIsZero(attended, held) ==
  IF held = 0 THEN 0 ELSE ToFixed2(attended * 100, held)

\* The percentage of a summary, in hundredths of a percent.
Percentage(attended, held) ==
  IF held = 0 THEN 100 * 100 ELSE ToFixed2(attended * 100, held)

NoSummary == [held |-> 0, attended |-> 0, missed |-> 0, percentage |-> 0]

MakeSummary(held, attended) ==
  [held |-> held, attended |-> attended, missed |-> held - attended,
   percentage |-> Percentage(attended, held)]

SummaryReq(op, studentId, classIds, pc) ==
  [op |-> op, pc |-> pc, studentId |-> studentId, classIds |-> classIds,
   held |-> 0, heldAt |-> 0, attendedAt |-> 0, hasSummary |-> FALSE,
   summary |-> NoSummary, resp |-> NoResp]

\* Lines 259-264: start ClassEnrollment.find.
SummaryStart(r, students) ==
  /\ ~Busy(r)
  /\ \E s \in students :
       req' = [req EXCEPT ![r] = SummaryReq("summary", s, {}, "enrollments")]
  /\ UNCHANGED <<records, now, enrollments, accounts>>

\* Lines 264-280: the enrollments return; start Attendance.distinct.
SummaryEnrollments(r) ==
  /\ req[r].op = "summary" /\ req[r].pc = "enrollments"
  /\ LET classIds == EnrolledClassIds(req[r].studentId)
     IN IF classIds = {}
        THEN Finish(r, Resp(200, "Student is not enrolled in any classes."))
        ELSE req' = [req EXCEPT ![r].pc = "distinct", ![r].classIds = classIds]
  /\ UNCHANGED <<records, now, enrollments, accounts>>

\* Lines 278-287: the distinct session ids return; start countDocuments.
SummaryDistinct(r) ==
  /\ req[r].op = "summary" /\ req[r].pc = "distinct"
  /\ req' = [req EXCEPT ![r].pc = "count",
               ![r].held = HeldSessions(records, req[r].classIds),
               ![r].heldAt = Len(records)]
  /\ UNCHANGED <<records, now, enrollments, accounts>>

\* Lines 284-302: the count returns; compute and respond.
SummaryCount(r) ==
  /\ req[r].op = "summary" /\ req[r].pc = "count"
  /\ LET attended ==
           CountDocuments(records, req[r].studentId, req[r].classIds)
     IN req' = [req EXCEPT ![r].pc = "done", ![r].hasSummary = TRUE,
                  ![r].attendedAt = Len(records),
                  ![r].summary = MakeSummary(req[r].held, attended),
                  ![r].resp = Resp(200, "Overall summary fetched successfully")]
  /\ UNCHANGED <<records, now, enrollments, accounts>>

\* Lines 317-331: start Attendance.distinct for the class of the route.
ClassSummaryStart(r, students, classes) ==
  /\ ~Busy(r)
  /\ \E s \in students, c \in classes :
       req' = [req EXCEPT ![r] = SummaryReq("classSummary", s, {c}, "distinct")]
  /\ UNCHANGED <<records, now, enrollments, accounts>>

\* Lines 329-338: the distinct session ids return; start countDocuments.
ClassSummaryDistinct(r) ==
  /\ req[r].op = "classSummary" /\ req[r].pc = "distinct"
  /\ req' = [req EXCEPT ![r].pc = "count",
               ![r].held = HeldSessions(records, req[r].classIds),
               ![r].heldAt = Len(records)]
  /\ UNCHANGED <<records, now, enrollments, accounts>>

\* Lines 335-354: the count returns; compute and respond.
ClassSummaryCount(r) ==
  /\ req[r].op = "classSummary" /\ req[r].pc = "count"
  /\ LET attended ==
           CountDocuments(records, req[r].studentId, req[r].classIds)
     IN req' = [req EXCEPT ![r].pc = "done", ![r].hasSummary = TRUE,
                  ![r].attendedAt = Len(records),
                  ![r].summary = MakeSummary(req[r].held, attended),
                  ![r].resp = Resp(200, "Class summary fetched successfully")]
  /\ UNCHANGED <<records, now, enrollments, accounts>>

(* ------------------------- paginated records -------------------------- *)
\* A query parameter: absent, or the decimal text of n.
QueryInt(present, n) == [present |-> present, n |-> n]
NoQuery == QueryInt(FALSE, 0)

DefaultPage == 1
DefaultLimit == 20

\* parseInt(v, 10) || dflt: NaN (absent) and 0 are falsy.
ParseIntOr(v, dflt) == IF ~v.present \/ v.n = 0 THEN dflt ELSE v.n

\* Mutant: the offset of the page after the one asked for.
SkipOf_NextPage(page, limit) == page * limit

\* Lines 183 and 224: skip = (page - 1) * limit
SkipOf(page, limit) == (page - 1) * limit

\* Math.ceil(a / b) for a >= 0, b > 0.
Ceil(a, b) == (a + b - 1) \div b

\* The filter { studentId } or { studentId, classId }.
MatchesFilter(rec, studentId, classId) ==
  /\ rec.studentId = studentId
  /\ (classId = Undefined \/ rec.classId = classId)

\* .sort({ timestamp: -1 }): latest first; records of one timestamp are
\* kept in insertion order.
RECURSIVE SortByTimestampDesc(_)
SortByTimestampDesc(q) ==
  IF q = <<>> THEN <<>>
  ELSE LET m == CHOOSE i \in 1..Len(q) :
                  \A j \in 1..Len(q) :
                    /\ q[j].timestamp <= q[i].timestamp
                    /\ (q[j].timestamp = q[i].timestamp => j >= i)
           rest == SubSeq(q, 1, m - 1) \o SubSeq(q, m + 1, Len(q))
       IN <<q[m]>> \o SortByTimestampDesc(rest)

\* Attendance.find(filter).sort({ timestamp: -1 }).limit(limit).skip(skip)
FindPage(recs, studentId, classId, limit, skip) ==
  LET Test(x) == MatchesFilter(x, studentId, classId)
      sorted == SortByTimestampDesc(SelectSeq(recs, Test))
      last == IF skip + limit < Len(sorted) THEN skip + limit ELSE Len(sorted)
  IN SubSeq(sorted, skip + 1, last)

\* Attendance.countDocuments(filter)
CountMatching(recs, studentId, classId) ==
  LET Test(x) == MatchesFilter(x, studentId, classId)
  IN Len(SelectSeq(recs, Test))

\* The state of a records request; findAt is history: the length of the
\* store when the page was read.
RecordsReq(op, studentId, classId, page, limit) ==
  [op |-> op, pc |-> "find", studentId |-> studentId, classId |-> classId,
   page |-> page, limit |-> limit, skip |-> SkipOf(page, limit),
   data |-> <<>>, findAt |-> 0, countAt |-> 0,
   totalRecords |-> 0, totalPages |-> 0, resp |-> NoResp]

\* Lines 178-185: read the query, start Attendance.find.
GetMyAttendanceRecords(r, students, pages, limits) ==
  /\ ~Busy(r)
  /\ \E s \in students, p \in pages, l \in limits :
       req' = [req EXCEPT ![r] =
         RecordsReq("records", s, Undefined, ParseIntOr(p, DefaultPage),
                    ParseIntOr(l, DefaultLimit))]
  /\ UNCHANGED <<records, now, enrollments, accounts>>

\* Lines 218-226: the same for one class.
GetMyAttendanceRecordsByClass(r, students, classIds, pages, limits) ==
  /\ ~Busy(r)
  /\ \E s \in students, c \in classIds, p \in pages, l \in limits :
       req' = [req EXCEPT ![r] =
         RecordsReq("recordsByClass", s, c, ParseIntOr(p, DefaultPage),
                    ParseIntOr(l, DefaultLimit))]
  /\ UNCHANGED <<records, now, enrollments, accounts>>

\* Lines 185-192 and 226-233: the page returns; start countDocuments.
RecordsFind(r) ==
  /\ req[r].op \in {"records", "recordsByClass"} /\ req[r].pc = "find"
  /\ req' = [req EXCEPT ![r].pc = "count", ![r].findAt = Len(records),
               ![r].data = FindPage(records, req[r].studentId, req[r].classId,
                                    req[r].limit, req[r].skip)]
  /\ UNCHANGED <<records, now, enrollments, accounts>>

\* Lines 192-204 and 233-245: the count returns; respond.
RecordsCount(r) ==
  /\ req[r].op \in {"records", "recordsByClass"} /\ req[r].pc = "count"
  /\ LET total == CountMatching(records, req[r].studentId, req[r].classId)
     IN req' = [req EXCEPT ![r].pc = "done", ![r].countAt = Len(records),
                  ![r].totalRecords = total,
                  ![r].totalPages = Ceil(total, req[r].limit),
                  ![r].resp = Resp(200,
                     IF req[r].op = "records"
                     THEN "Records fetched successfully"
                     ELSE "Class records fetched successfully")]
  /\ UNCHANGED <<records, now, enrollments, accounts>>

(* --------------------------- getMyMissedClasses ------------------------ *)
\* ScheduleInstance documents: one occurrence of a class.  scheduledDate is
\* a time of the model's clock; attendanceSessionId is the _id of the live
\* session opened for the occurrence, NoId when none was.
ScheduleInstance(id, classId, scheduledDate, status, attendanceSessionId) ==
  [_id |-> id, classId |-> classId, scheduledDate |-> scheduledDate,
   status |-> status, attendanceSessionId |-> attendanceSessionId]
ScheduleInstances ==
  { ScheduleInstance("i1", "c1", 0, "completed", "o1"),
    ScheduleInstance("i2", "c1", 1, "completed", NoId),
    ScheduleInstance("i3", "c2", 0, "completed", "o2"),
    ScheduleInstance("i4", "c1", 0, "cancelled", "o3"),
    ScheduleInstance("i5", "c1", 2, "scheduled", "o3") }

\* Lines 381-388: ScheduleInstance.find({ classId: { $in: classIds },
\* scheduledDate: { $lte: new Date() }, status: { $ne: 'cancelled' } })
HeldInstances(classIds, t) ==
  { i \in ScheduleInstances :
      i.classId \in classIds /\ i.scheduledDate <= t /\ i.status # "cancelled" }

\* Lines 392-394: Attendance.find({ studentId }).select('sessionId')
AttendedRecords(recs, studentId) ==
  { recs[i].sessionId : i \in { j \in 1..Len(recs) :
                                  recs[j].studentId = studentId } }

\* Mutant: an occurrence counts as linked whatever it holds.
Linked_Always(session) == TRUE

\* Line 407: !session.attendanceSessionId is false
Linked(session) == session.attendanceSessionId # NoId

\* Lines 402-413: the held occurrences that are linked and whose session id
\* is not in the attended set.
MissedClasses(heldSessions, attendedSessionIds) ==
  { session \in heldSessions :
      /\ Linked(session)
      /\ session.attendanceSessionId \notin attendedSessionIds }

\* The state of a missed-classes request; heldTime and attendedAt are
\* history: the time held in the occurrence query and the length of the
\* store when the student's records were read.
MissedReq(studentId) ==
  [op |-> "missed", pc |-> "enrollments", studentId |-> studentId,
   classIds |-> {}, heldSessions |-> {}, heldTime |-> 0, attendedAt |-> 0,
   hasList |-> FALSE, data |-> {}, count |-> 0, resp |-> NoResp]

\* Lines 369-374: start ClassEnrollment.find.
MissedStart(r, students) ==
  /\ ~Busy(r)
  /\ \E s \in students : req' = [req EXCEPT ![r] = MissedReq(s)]
  /\ UNCHANGED <<records, now, enrollments, accounts>>

\* Lines 374-388: the enrollments return; none ends the request with an
\* empty list, else start ScheduleInstance.find with the time of now.
MissedEnrollments(r) ==
  /\ req[r].op = "missed" /\ req[r].pc = "enrollments"
  /\ LET classIds == EnrolledClassIds(req[r].studentId)
     IN IF classIds = {}
        THEN req' = [req EXCEPT ![r].pc = "done", ![r].hasList = TRUE,
                       ![r].resp =
                          Resp(200, "Student is not enrolled in any classes.")]
        ELSE req' = [req EXCEPT ![r].pc = "held", ![r].classIds = classIds,
                       ![r].heldTime = now,
                       ![r].heldSessions = HeldInstances(classIds, now)]
  /\ UNCHANGED <<records, now, enrollments, accounts>>

\* Lines 388-392: the occurrences return; start Attendance.find.
MissedHeld(r) ==
  /\ req[r].op = "missed" /\ req[r].pc = "held"
  /\ req' = [req EXCEPT ![r].pc = "attended"]
  /\ UNCHANGED <<records, now, enrollments, accounts>>

\* Lines 394-424: the student's records return.  rec.sessionId.toString()
\* throws on a record without sessionId, which the catch block answers
\* with 500; else filter and respond.
MissedAttended(r) ==
  /\ req[r].op = "missed" /\ req[r].pc = "attended"
  /\ LET attended == AttendedRecords(records, req[r].studentId)
         missed == MissedClasses(req[r].heldSessions, attended)
     IN IF NoId \in attended
        THEN req' = [req EXCEPT ![r].pc = "done",
                       ![r].attendedAt = Len(records),
                       ![r].resp = Resp(500, "Failed to fetch missed classes.")]
        ELSE req' = [req EXCEPT ![r].pc = "done", ![r].hasList = TRUE,
                       ![r].attendedAt = Len(records),
                       ![r].data = missed,
                       ![r].count = Cardinality(missed),
                       ![r].resp =
                          Resp(200, "Missed classes fetched successfully")]
  /\ UNCHANGED <<records, now, enrollments, accounts>>

(* ------------------------ getFullAttendanceReport ---------------------- *)
\* Lines 1-7: the module imports seven names; mongoose is not one of them,
\* and nothing else in the file declares it.
MongooseInScope == FALSE

\* Lines 590-599: the $match stage.  A date or student filter applies when
\* the query parameter is present.
MatchQuery(rec, classId, startDate, endDate, studentId) ==
  /\ rec.classId = classId
  /\ (startDate.present => rec.timestamp >= startDate.n)
  /\ (endDate.present => rec.timestamp <= endDate.n)
  /\ (studentId # Undefined => rec.studentId = studentId)

\* Lines 604-616: $sum of $cond [$eq [$status, status], 1, 0] in one group.
DaysOf(matched, studentId, status) ==
  Cardinality({ i \in 1..Len(matched) :
    matched[i].studentId = studentId /\ matched[i].status = status })

\* Lines 646-652: 0 when totalDays is 0, else presentDays / totalDays * 100,
\* kept as the fraction num / den.
ReportPercentage(presentDays, totalDays) ==
  IF totalDays = 0 THEN [num |-> 0, den |-> 1]
  ELSE [num |-> presentDays * 100, den |-> totalDays]

\* Lines 601-656: the pipeline.  One group per studentId of the matching
\* records; $lookup and $unwind keep the groups whose student is a user.
ReportRows(recs, classId, startDate, endDate, studentId) ==
  LET Test(x) == MatchQuery(x, classId, startDate, endDate, studentId)
      matched == SelectSeq(recs, Test)
      groups == { matched[i].studentId : i \in 1..Len(matched) }
      Row(s) ==
        LET p == DaysOf(matched, s, "present")
            a == DaysOf(matched, s, "absent")
            l == DaysOf(matched, s, "late")
        IN [studentId |-> s, presentDays |-> p, absentDays |-> a,
            lateDays |-> l, totalDays |-> p + a + l,
            percentage |-> ReportPercentage(p, p + a + l)]
  IN { Row(s) : s \in { g \in groups : \E u \in Users : u.id = g } }

\* Lines 585-601 and 659-662: read the parameters and build the match
\* query.  Evaluating mongoose.Types.ObjectId (line 590) throws a
\* ReferenceError when mongoose is not in scope; the catch block answers
\* 500 with the error's message.  seen is history: the store at that
\* moment.
GetFullAttendanceReport(r, classIds, dates, studentIds) ==
  /\ ~Busy(r)
  /\ \E c \in classIds, sd \in dates, ed \in dates, s \in studentIds :
       LET q == [op |-> "report", pc |-> "aggregate", classId |-> c,
                 startDate |-> sd, endDate |-> ed, studentId |-> s,
                 hasReport |-> FALSE, report |-> {},
                 seen |-> records, resp |-> NoResp]
       IN req' = [req EXCEPT ![r] =
            IF MongooseInScope THEN q
            ELSE [q EXCEPT !.pc = "done",
                           !.resp = Resp(500, "mongoose is not defined")]]
  /\ UNCHANGED <<records, now, enrollments, accounts>>

\* Lines 601-658: the aggregation returns; respond with the rows.  The
\* step needs a request that got past line 590.
ReportAggregate(r) ==
  /\ req[r].op = "report" /\ req[r].pc = "aggregate"
  /\ req' = [req EXCEPT ![r].pc = "done", ![r].hasReport = TRUE,
               ![r].seen = records,
               ![r].report = ReportRows(records, req[r].classId,
                                        req[r].startDate, req[r].endDate,
                                        req[r].studentId),
               ![r].resp = Resp(200, "report")]
  /\ UNCHANGED <<records, now, enrollments, accounts>>

(* ------------------------- getAttendanceByClass ------------------------ *)
\* Lines 434-444: the query { classId }, with the timestamp bounds that are
\* present and the status unless it is absent or 'all'.
ClassQuery(rec, classId, startDate, endDate, status) ==
  /\ rec.classId = classId
  /\ (startDate.present => rec.timestamp >= startDate.n)
  /\ (endDate.present => rec.timestamp <= endDate.n)
  /\ ((status # Undefined /\ status # "all") => rec.status = status)

\* Lines 446-455: Attendance.find(query).sort({ timestamp: -1 })
FindByClass(recs, classId, startDate, endDate, status) ==
  LET Test(x) == ClassQuery(x, classId, startDate, endDate, status)
  IN SortByTimestampDesc(SelectSeq(recs, Test))

\* Line 458: ClassEnrollment.find({ classId })
EnrolledStudents(classId) == { e \in enrollments : e.classId = classId }

\* Number of the records answered that have status 'present'.
PresentCount(found) ==
  Cardinality({ i \in 1..Len(found) : found[i].status = "present" })

\* Lines 476-480: the stats.
ClassStats(totalEnrolled, found) ==
  [totalEnrolled |-> totalEnrolled, present |-> PresentCount(found),
   absent |-> totalEnrolled - PresentCount(found)]

\* Lines 429-446: read the parameters, build the query, start the find.
GetAttendanceByClass(r, classIds, dates, statuses) ==
  /\ ~Busy(r)
  /\ \E c \in classIds, sd \in dates, ed \in dates, st \in statuses :
       req' = [req EXCEPT ![r] =
         [op |-> "byClass", pc |-> "find", classId |-> c, startDate |-> sd,
          endDate |-> ed, status |-> st, attendance |-> <<>>,
          stats |-> ClassStats(0, <<>>), resp |-> NoResp]]
  /\ UNCHANGED <<records, now, enrollments, accounts>>

\* Lines 446-458: the records return; start ClassEnrollment.find.
ByClassFind(r) ==
  /\ req[r].op = "byClass" /\ req[r].pc = "find"
  /\ req' = [req EXCEPT ![r].pc = "enrolled",
               ![r].attendance = FindByClass(records, req[r].classId,
                                             req[r].startDate, req[r].endDate,
                                             req[r].status)]
  /\ UNCHANGED <<records, now, enrollments, accounts>>

\* Lines 458-485: the enrollments return; transform, count, respond.
ByClassEnrolled(r) ==
  /\ req[r].op = "byClass" /\ req[r].pc = "enrolled"
  /\ req' = [req EXCEPT ![r].pc = "done",
               ![r].stats =
                  ClassStats(Cardinality(EnrolledStudents(req[r].classId)),
                             req[r].attendance),
               ![r].resp = Resp(200, "attendance")]
  /\ UNCHANGED <<records, now, enrollments, accounts>>

(* ------------------- registerTeacher, updateTeacherProfile ------------- *)
\* accounts is the User collection as the teacher controller writes it: the
\* documents in insertion order, each with its stored email and its role;
\* the position of a document stands for its _id.
Emails == {"a@x", "A@x", "b@x"}

\* The schema's lowercase: true setter on email.
ToLowerCase(email) == IF email = "A@x" THEN "a@x" ELSE email

\* Mutant: a collection without the unique index on email.
EmailTaken_NoIndex(accts, email, self) == FALSE

\* The schema's unique: true on email: a document other than self holds
\* the value.
EmailTaken(accts, email, self) ==
  \E i \in 1..Len(accts) : i # self /\ accts[i].email = email

\* The schema's role: enum and required.
RoleValid(role) == role \in {"teacher", "admin"}

RegisterBody(hasName, email, hasPassword, role) ==
  [hasName |-> hasName, email |-> email, hasPassword |-> hasPassword,
   role |-> role]
RegisterBodies ==
  { RegisterBody(TRUE, e, TRUE, "teacher") : e \in Emails }
    \cup { RegisterBody(TRUE, "b@x", TRUE, Undefined),
           RegisterBody(TRUE, Undefined, TRUE, "teacher"),
           RegisterBody(FALSE, "b@x", TRUE, "teacher") }

\* Registrations in flight, each of which may still insert a user.
PendingUsers ==
  Cardinality({ r \in Slots : req[r].op = "register" /\ Busy(r) })

\* Lines 11-27: validate, start User.findOne({ email }).
RegisterTeacher(r, bodies) ==
  /\ ~Busy(r)
  /\ Len(accounts) + PendingUsers + 1 <= MaxUsers
  /\ \E b \in bodies :
       LET q == [op |-> "register", pc |-> "findOne", body |-> b,
                 freeAtCheck |-> FALSE, rival |-> FALSE, created |-> 0,
                 resp |-> NoResp]
       IN req' = [req EXCEPT ![r] =
            IF ~b.hasName \/ b.email = Undefined \/ ~b.hasPassword
            THEN [q EXCEPT !.pc = "done", !.resp = Resp(400, "required")]
            ELSE q]
  /\ UNCHANGED <<records, now, enrollments, accounts>>

\* Registration u has passed the existence check for the email of r and
\* has not yet created.
RivalOf(r, u) ==
  /\ u # r /\ req[u].op = "register" /\ req[u].pc = "create"
  /\ ToLowerCase(req[u].body.email) = ToLowerCase(req[r].body.email)

\* Lines 27-47: the lookup returns; an existing user ends the request with
\* 400, else start User.create.  Whether the query value went through the
\* schema's setter depends on the library version, so both are possible.
\* freeAtCheck and rival are history: no document held the email, as it
\* is stored, at this moment; the request is one of two that were past the
\* check for one email at the same time (noted on both).
RegisterFindOne(r) ==
  /\ req[r].op = "register" /\ req[r].pc = "findOne"
  /\ \E setters \in BOOLEAN :
       LET key == IF setters THEN ToLowerCase(req[r].body.email)
                  ELSE req[r].body.email
       IN IF \E i \in 1..Len(accounts) : accounts[i].email = key
          THEN Finish(r, Resp(400, "User already exists"))
          ELSE req' = [u \in Slots |->
                 IF u = r
                 THEN [req[r] EXCEPT !.pc = "create",
                         !.freeAtCheck =
                            ~EmailTaken(accounts,
                                        ToLowerCase(req[r].body.email), 0),
                         !.rival = \E v \in Slots : RivalOf(r, v)]
                 ELSE IF RivalOf(r, u) THEN [req[u] EXCEPT !.rival = TRUE]
                 ELSE req[u]]
  /\ UNCHANGED <<records, now, enrollments, accounts>>

\* Lines 47-67: User.create settles: a validation error or a duplicate key
\* lands in the catch block, else the user is stored.
RegisterCreate(r) ==
  /\ req[r].op = "register" /\ req[r].pc = "create"
  /\ LET email == ToLowerCase(req[r].body.email)
     IN IF ~RoleValid(req[r].body.role)
        THEN /\ Finish(r, Resp(500, "validation"))
             /\ UNCHANGED accounts
        ELSE IF EmailTaken(accounts, email, 0)
        THEN /\ Finish(r, Resp(500, "E11000"))
             /\ UNCHANGED accounts
        ELSE /\ accounts' = Append(accounts,
                               [email |-> email, role |-> req[r].body.role])
             /\ req' = [req EXCEPT ![r].pc = "done", ![r].created = 1,
                          ![r].resp = Resp(201, "created")]
  /\ UNCHANGED <<records, now, enrollments>>

\* Lines 111-114: start User.findById(req.user.id).
UpdateTeacherProfile(r, ids, emails) ==
  /\ ~Busy(r)
  /\ \E id \in ids, e \in emails :
       req' = [req EXCEPT ![r] =
         [op |-> "profile", pc |-> "findById", userId |-> id, email |-> e,
          loaded |-> Undefined, resp |-> NoResp]]
  /\ UNCHANGED <<records, now, enrollments, accounts>>

\* Lines 114-125: the user returns; no teacher ends the request with 404,
\* else the fields are set on the loaded document and save is started.
ProfileFindById(r) ==
  /\ req[r].op = "profile" /\ req[r].pc = "findById"
  /\ IF req[r].userId > Len(accounts)
     THEN Finish(r, Resp(404, "Teacher not found"))
     ELSE IF accounts[req[r].userId].role # "teacher"
     THEN Finish(r, Resp(404, "Teacher not found"))
     ELSE req' = [req EXCEPT ![r].pc = "save",
                    ![r].loaded = accounts[req[r].userId].email]
  /\ UNCHANGED <<records, now, enrollments, accounts>>

\* Lines 125-136: the save settles.  The email is written when the body
\* gave one that differs, once lowercased, from the loaded one; a value
\* another user holds is refused by the unique index.
ProfileSave(r) ==
  /\ req[r].op = "profile" /\ req[r].pc = "save"
  /\ LET email == IF req[r].email = Undefined THEN req[r].loaded
                  ELSE ToLowerCase(req[r].email)
     IN IF email = req[r].loaded
        THEN /\ Finish(r, Resp(200, "profile"))
             /\ UNCHANGED accounts
        ELSE IF EmailTaken(accounts, email, req[r].userId)
        THEN /\ Finish(r, Resp(500, "E11000"))
             /\ UNCHANGED accounts
        ELSE /\ accounts' = [accounts EXCEPT ![req[r].userId].email = email]
             /\ Finish(r, Resp(200, "profile"))
  /\ UNCHANGED <<records, now, enrollments>>

(* ---------------------------- specifications -------------------------- *)
MixPayloads ==
  { Payload(TRUE, q) :
      q \in SeqsUpTo({Claim("o1", "c1"), Claim("t1", "c1")}, MaxBatch) \ {<<>>} }
MixBodies == { SubmitBody("t1", "c1", TRUE, JsTrue, 1) }
MixManualBodies == { ManualBody("s1", "c1", Undefined) }

Enrollment(studentId, classId) == [studentId |-> studentId, classId |-> classId]

Init ==
  /\ records = <<>>
  /\ now = 0
  /\ req = [r \in Slots |-> Idle]
  /\ enrollments = { Enrollment("s1", "c1"), Enrollment("s2", "c1") }
  /\ accounts = <<>>

Tick ==
  /\ now < MaxTime
  /\ now' = now + 1
  /\ UNCHANGED <<records, req, enrollments, accounts>>

\* All writers, two requests at a time, for one student.
Next ==
  \E r \in Slots :
       \/ SubmitStart(r, MixBodies, {"s1"})
       \/ SubmitFindUser(r)
       \/ SubmitCompare(r)
       \/ SubmitFindSession(r)
       \/ SubmitFindExisting(r)
       \/ SubmitSave(r)
       \/ SyncStart(r, MixPayloads, {"s1"})
       \/ SyncLookup(r)
       \/ SyncSave(r)
       \/ CreateManualAttendance(r, MixManualBodies)
       \/ UpdateAttendance(r, {"absent", "excused"})

Spec == Init /\ [][Next]_vars

\* Live submissions only, every kind of body, while time passes.
NextSubmit ==
  \/ Tick
  \/ \E r \in Slots :
       \/ SubmitStart(r, SubmitBodies, Students)
       \/ SubmitFindUser(r)
       \/ SubmitCompare(r)
       \/ SubmitFindSession(r)
       \/ SubmitFindExisting(r)
       \/ SubmitSave(r)

SpecSubmit == Init /\ [][NextSubmit]_vars

\* Offline reconciliation only.
NextSync ==
  \E r \in Slots :
    \/ SyncStart(r, SyncPayloads, Students)
    \/ SyncLookup(r)
    \/ SyncSave(r)

SpecSync == Init /\ [][NextSync]_vars

\* Summaries read by one request while another writes.
EnrollmentChoices ==
  { {},
    { Enrollment("s1", "c1") },
    { Enrollment("s1", "c1"), Enrollment("s1", "c2"), Enrollment("s2", "c1") } }

InitSummary ==
  /\ records = <<>>
  /\ now = 0
  /\ req = [r \in Slots |-> Idle]
  /\ enrollments \in EnrollmentChoices
  /\ accounts = <<>>

SummaryPayloads ==
  { Payload(TRUE, <<c>>) :
      c \in { Claim("o1", "c1"), Claim("o2", "c2"), Claim("t1", "c1") } }
SummaryManualBodies == { ManualBody("s1", "c1", Undefined) }

NextSummary ==
  \/ SyncStart(1, SummaryPayloads, Students)
  \/ SyncLookup(1)
  \/ SyncSave(1)
  \/ CreateManualAttendance(1, SummaryManualBodies)
  \/ SummaryStart(2, Students)
  \/ SummaryEnrollments(2)
  \/ SummaryDistinct(2)
  \/ SummaryCount(2)
  \/ ClassSummaryStart(2, Students, Classes)
  \/ ClassSummaryDistinct(2)
  \/ ClassSummaryCount(2)

SpecSummary == InitSummary /\ [][NextSummary]_vars

\* The three kinds of writer one after another in slot 1, status
\* corrections in slot 2, while time passes.  One offline claim names a
\* session id that no session has; the claims were captured at times 0 and 1.
ProvPayloads ==
  { Payload(TRUE, q) :
      q \in SeqsUpTo({ClaimAt("o2", "c2", 0), ClaimAt("o9", "c1", 1)},
                     MaxBatch) \ {<<>>} }
ProvManualBodies == { ManualBody("s1", "c1", "absent") }

NextProvenance ==
  \/ Tick
  \/ SubmitStart(1, MixBodies, {"s1"})
  \/ SubmitFindUser(1)
  \/ SubmitCompare(1)
  \/ SubmitFindSession(1)
  \/ SubmitFindExisting(1)
  \/ SubmitSave(1)
  \/ SyncStart(1, ProvPayloads, {"s1"})
  \/ SyncLookup(1)
  \/ SyncSave(1)
  \/ CreateManualAttendance(1, ProvManualBodies)
  \/ UpdateAttendance(2, {"late", "excused"})

SpecProvenance == Init /\ [][NextProvenance]_vars

\* Paginated reads in slot 2 while a reconciliation in slot 1 adds records
\* of two students, two classes and two capture times.
RecordsPayloads ==
  { Payload(TRUE, <<c>>) :
      c \in { ClaimAt("o1", "c1", 1), ClaimAt("o2", "c2", 0),
              ClaimAt("t1", "c1", 1) } }
Pages == { NoQuery, QueryInt(TRUE, 1), QueryInt(TRUE, 2) }
Limits == { NoQuery, QueryInt(TRUE, 1), QueryInt(TRUE, 2) }

NextRecords ==
  \/ SyncStart(1, RecordsPayloads, Students)
  \/ SyncLookup(1)
  \/ SyncSave(1)
  \/ GetMyAttendanceRecords(2, {"s1"}, Pages, Limits)
  \/ GetMyAttendanceRecordsByClass(2, {"s1"}, {"c1"}, Pages, Limits)
  \/ RecordsFind(2)
  \/ RecordsCount(2)

SpecRecords == Init /\ [][NextRecords]_vars

\* Missed-classes reads in slot 2 while slot 1 submits, reconciles and
\* enters a manual record, and time passes.
MissedPayloads == { Payload(TRUE, <<ClaimAt("o2", "c2", 0)>>) }
MissedManualBodies == { ManualBody("s1", "c1", "present") }

NextMissed ==
  \/ Tick
  \/ SubmitStart(1, MixBodies, {"s1"})
  \/ SubmitFindUser(1)
  \/ SubmitCompare(1)
  \/ SubmitFindSession(1)
  \/ SubmitFindExisting(1)
  \/ SubmitSave(1)
  \/ SyncStart(1, MissedPayloads, {"s1"})
  \/ SyncLookup(1)
  \/ SyncSave(1)
  \/ CreateManualAttendance(1, MissedManualBodies)
  \/ MissedStart(2, Students)
  \/ MissedEnrollments(2)
  \/ MissedHeld(2)
  \/ MissedAttended(2)

SpecMissed == InitSummary /\ [][NextMissed]_vars

\* Report requests in slot 2 while slot 1 reconciles, enters manual records
\* and corrects statuses.  No request gets past line 590, so the
\* aggregation step has no place in the next-state relation.
ReportPayloads == { Payload(TRUE, <<ClaimAt("o1", "c1", 1)>>) }
ReportManualBodies ==
  { ManualBody("s1", "c1", "absent"), ManualBody("s2", "c1", "late") }
ReportDates == { NoQuery, QueryInt(TRUE, 1) }

NextReport ==
  \/ SyncStart(1, ReportPayloads, Students)
  \/ SyncLookup(1)
  \/ SyncSave(1)
  \/ CreateManualAttendance(1, ReportManualBodies)
  \/ UpdateAttendance(1, {"late"})
  \/ GetFullAttendanceReport(2, {"c1"}, ReportDates, {Undefined, "s1"})

SpecReport == Init /\ [][NextReport]_vars

\* One client at a time: live submissions and reconciliations of student
\* s1 follow one another in slot 1, so a request starts after the one
\* before it has been answered.  The offline claims carry the session id the
\* client holds, the token of the QR code.
ResyncPayloads ==
  { Payload(TRUE, q) :
      q \in SeqsUpTo({Claim("t1", "c1"), Claim("t2", "c2")}, MaxBatch) \ {<<>>} }

NextResync ==
  \/ Tick
  \/ SubmitStart(1, MixBodies, {"s1"})
  \/ SubmitFindUser(1)
  \/ SubmitCompare(1)
  \/ SubmitFindSession(1)
  \/ SubmitFindExisting(1)
  \/ SubmitSave(1)
  \/ SyncStart(1, ResyncPayloads, {"s1"})
  \/ SyncLookup(1)
  \/ SyncSave(1)

SpecResync == Init /\ [][NextResync]_vars

\* Class reads in slot 2 while a reconciliation in slot 1 adds records of
\* two students for two sessions of class c1, captured at two times.
ByClassPayloads ==
  { Payload(TRUE, <<c>>) :
      c \in { ClaimAt("o1", "c1", 0), ClaimAt("o3", "c1", 1) } }
ByClassStatuses == { Undefined, "all", "present", "absent" }

NextByClass ==
  \/ SyncStart(1, ByClassPayloads, Students)
  \/ SyncLookup(1)
  \/ SyncSave(1)
  \/ UpdateAttendance(1, {"absent"})
  \/ GetAttendanceByClass(2, {"c1"}, ReportDates, ByClassStatuses)
  \/ ByClassFind(2)
  \/ ByClassEnrolled(2)

SpecByClass == Init /\ [][NextByClass]_vars

\* Two clients of the teacher controller at once.
NextTeacher ==
  \E r \in Slots :
    \/ RegisterTeacher(r, RegisterBodies)
    \/ RegisterFindOne(r)
    \/ RegisterCreate(r)
    \/ UpdateTeacherProfile(r, 1..MaxUsers, Emails \cup {Undefined})
    \/ ProfileFindById(r)
    \/ ProfileSave(r)

SpecTeacher == Init /\ [][NextTeacher]_vars

(* ------------------------------ properties ----------------------------- *)
SubmitDone(r) == req[r].op = "submit" /\ req[r].pc = "done"
SyncDone(r) == req[r].op = "sync" /\ req[r].pc = "done"
SummaryDone(r) ==
  req[r].op \in {"summary", "classSummary"} /\ req[r].pc = "done"

\* Number of records of a (studentId, sessionId) pair.
PairCount(studentId, sessionId) ==
  Cardinality({ i \in 1..Len(records) :
                  records[i].studentId = studentId
                  /\ records[i].sessionId = sessionId })

\* A submission that passed every stage before the session lookup.
PassedVerification(r) == req[r].op = "submit" /\ req[r].face = "match"

\* C1 (as claimed): of two submissions of one student for one session that
\* both arrived while the student had no record and both got as far as the
\* duplicate check without a store outage, exactly one ends 201 and the
\* other 409, and one record exists for the pair.
C1_OneCreatedOneConflict ==
  \A r1, r2 \in Slots :
    ( /\ r1 # r2
      /\ SubmitDone(r1) /\ SubmitDone(r2)
      /\ req[r1].studentId = req[r2].studentId
      /\ req[r1].body = req[r2].body
      /\ ~req[r1].hadRecord /\ ~req[r2].hadRecord
      /\ req[r1].resp.msg \in {"created", "duplicate", "E11000"}
      /\ req[r2].resp.msg \in {"created", "duplicate", "E11000"} )
    => /\ {req[r1].resp.code, req[r2].resp.code} = {201, 409}
       /\ PairCount(req[r1].studentId, req[r1].qrSession) = 1

Outcomes(r, status) ==
  { i \in 1..Len(req[r].syncResults) : req[r].syncResults[i].status = status }

\* C3 (as claimed): a sync of a list of N claims answers 200 with exactly N
\* outcomes in input order, each skipped or success, and creates exactly
\* as many records as it reports successes (N minus the skipped ones).
C3_OneOutcomePerClaim ==
  \A r \in Slots :
    (SyncDone(r) /\ req[r].isArray /\ Len(req[r].attendances) > 0)
    => LET n == Len(req[r].attendances)
       IN /\ req[r].resp.code = 200
          /\ Len(req[r].syncResults) = n
          /\ \A i \in 1..n :
               req[r].syncResults[i].sessionId = req[r].attendances[i].sessionId
          /\ Cardinality(Outcomes(r, "skipped"))
               + Cardinality(Outcomes(r, "success")) = n
          /\ req[r].created = n - Cardinality(Outcomes(r, "skipped"))

\* C4 (as claimed): a sync of several claims in which persisting one claim
\* failed still went through every claim of the batch and answers with one
\* outcome per claim.
C4_FailureKeepsBatch ==
  \A r \in Slots :
    (SyncDone(r) /\ req[r].resp.code = 500 /\ Len(req[r].attendances) >= 2)
    => /\ req[r].idx > Len(req[r].attendances)
       /\ Len(req[r].syncResults) = Len(req[r].attendances)

\* C5: a submission whose livenessPassed is not the boolean true has ended
\* with a 400 for invalid input, whatever its other fields, and has
\* persisted nothing.
C5_LivenessRequired ==
  \A r \in Slots :
    (req[r].op = "submit" /\ req[r].body.livenessPassed # JsTrue)
    => /\ req[r].pc = "done"
       /\ req[r].resp \in {Resp(400, "missing"), Resp(400, "liveness")}
       /\ req[r].created = 0

\* C5 witness: a body complete but for livenessPassed = 'true' (a string)
\* was refused.
C5_Witness ==
  \E r \in Slots :
    /\ SubmitDone(r)
    /\ req[r].body.livenessPassed = JsTrueString
    /\ ~MissingRequired(req[r].body)
    /\ req[r].resp = Resp(400, "liveness")

\* C6 (as claimed): a submission with valid input that names an expired
\* session ends in 'invalid or has expired', for every student and every
\* face-match result.
C6_ExpiredAlwaysInvalidSession ==
  \A r \in Slots :
    ( /\ SubmitDone(r) /\ req[r].wasExpired
      /\ ~MissingRequired(req[r].body)
      /\ LivenessOk(req[r].body.livenessPassed)
      /\ ~ImageTooLarge(req[r].body.faceImage) )
    => req[r].resp = Resp(400, "session")

\* C6 (amended): a submission naming an expired session never reaches the
\* duplicate check or the save and persists nothing; it ends in 'invalid or
\* has expired' whenever the face comparison said match.
C6_ExpiredNeverPersists ==
  \A r \in Slots :
    (req[r].op = "submit" /\ req[r].wasExpired)
    => /\ req[r].pc \notin {"findExisting", "save"}
       /\ req[r].created = 0
       /\ req[r].resp.code # 201
       /\ (req[r].pc = "done" /\ PassedVerification(r))
            => req[r].resp = Resp(400, "session")

\* C6 witness: session t2 of class c2, valid at time 0, is named after it
\* expired by a student whose face matched.
C6_Witness ==
  \E r \in Slots :
    /\ SubmitDone(r) /\ req[r].wasExpired
    /\ req[r].body.sessionId = "t2"
    /\ PassedVerification(r)
    /\ req[r].resp = Resp(400, "session")

\* C7 (as claimed): a valid submission, face matched, that arrives when the
\* student already has a record for the session ends in 409.
C7_RetryAlwaysConflict ==
  \A r \in Slots :
    (SubmitDone(r) /\ req[r].hadRecord /\ PassedVerification(r))
    => req[r].resp.code = 409

\* C7 (amended): a submission that arrives when the student already has a
\* record for the session never reaches the save and creates nothing, the
\* pair keeps exactly one record, and once the face matched it ends in 409
\* while the session is still active and unexpired, in 'invalid or has
\* expired' after that.
C7_RetryNeverDuplicates ==
  \A r \in Slots :
    (req[r].op = "submit" /\ req[r].hadRecord)
    => /\ req[r].pc # "save"
       /\ req[r].created = 0
       /\ PairCount(req[r].studentId, NamedSession(req[r].body)) = 1
       /\ (req[r].pc = "done" /\ PassedVerification(r))
            => req[r].resp = IF req[r].qrSession = NoId
                             THEN Resp(400, "session")
                             ELSE Resp(409, "duplicate")

\* C7 witness: both requests are retries of a recorded submission, one
\* answered 409 and one, after the expiry, 'invalid or has expired'.
C7_Witness ==
  \E r1, r2 \in Slots :
    /\ r1 # r2
    /\ SubmitDone(r1) /\ req[r1].hadRecord
    /\ SubmitDone(r2) /\ req[r2].hadRecord
    /\ req[r1].body = req[r2].body
    /\ req[r1].resp = Resp(409, "duplicate")
    /\ req[r2].resp = Resp(400, "session")

\* C8 (as claimed): when the face comparison fails instead of answering,
\* the submission does not end in 401 and persists nothing.
C8_UnavailableIsNot401 ==
  \A r \in Slots :
    (SubmitDone(r) /\ req[r].face \in {"throwFaceMsg", "throwOther"})
    => /\ req[r].resp.code # 401
       /\ req[r].created = 0

ClassSet(r) ==
  IF req[r].op = "summary" THEN EnrolledClassIds(req[r].studentId)
  ELSE req[r].classIds

Malformed(r) ==
  req[r].op = "sync" /\ (~req[r].isArray \/ Len(req[r].attendances) = 0)

\* C14: a sync whose payload is not a list, or is an empty list, is answered
\* with the top-level 400 before any claim is looked up or persisted: it
\* has no outcome, has created nothing and has not moved past the first
\* claim, and the step that takes it in leaves the store as it was.
C14_MalformedRejected ==
  /\ [](\A r \in Slots :
         Malformed(r) =>
           /\ req[r].pc = "done"
           /\ req[r].resp = Resp(400, "nothing")
           /\ req[r].created = 0
           /\ req[r].idx = 1
           /\ req[r].syncResults = <<>>)
  /\ [][\A r \in Slots :
          (req'[r] # req[r] /\ Malformed(r)') => records' = records]_vars

\* Both malformed payloads have been rejected while the store held a record.
C14_Witness ==
  \E r, u \in Slots :
    /\ req[r].op = "sync" /\ ~req[r].isArray
    /\ req[u].op = "sync" /\ req[u].isArray /\ Len(req[u].attendances) = 0
    /\ req[r].resp.code = 400 /\ req[u].resp.code = 400
    /\ Len(records) > 0

\* The stages of a submission, restated from the request's own data.
BodyValid(b) ==
  /\ b.sessionId # Undefined /\ b.classId # Undefined
  /\ b.studentCoordinates /\ b.faceImage > 0
  /\ b.livenessPassed = JsTrue
HasFaceKey(studentId) ==
  \E u \in Users : u.id = studentId /\ u.faceImageS3Key # NoKey

\* Submission q has passed the first n of: 1 validation, 2 key resolution,
\* 3 size check, 4 identity verification, 5 session validation.
PassedUpTo(q, n) ==
  /\ (n >= 1 => BodyValid(q.body))
  /\ (n >= 2 => HasFaceKey(q.studentId))
  /\ (n >= 3 => q.body.faceImage <= MaxImageMB)
  /\ (n >= 4 => q.face = "match")
  /\ (n >= 5 => q.qrSession # NoId)

\* Submission q fails stage n on its own data.
FailsAt(q, n) ==
  /\ (n = 1 => ~BodyValid(q.body))
  /\ (n = 2 => ~HasFaceKey(q.studentId))
  /\ (n = 3 => q.body.faceImage > MaxImageMB)
  /\ (n = 4 => q.face \in {"nomatch", "throwFaceMsg", "throwOther"})
  /\ (n = 5 => q.qrSession = NoId)

\* The stage a terminal outcome belongs to; 7 is persistence.
StageOfOutcome(resp) ==
  IF resp.msg \in {"missing", "liveness"} THEN 1
  ELSE IF resp.msg = "noface" THEN 2
  ELSE IF resp.msg = "size" THEN 3
  ELSE IF resp.msg \in {"nomatch", "Face could not be verified", "throwOther"}
  THEN 4
  ELSE IF resp.msg = "session" THEN 5
  ELSE IF resp.msg = "duplicate" THEN 6
  ELSE 7

\* The stages passed when a submission waits at pc, and the position of pc
\* in the handler.
PassedAtPc(pc) ==
  IF pc = "findUser" THEN 1
  ELSE IF pc = "compare" THEN 3
  ELSE IF pc = "findSession" THEN 4
  ELSE 5
PcRank(pc) ==
  IF pc = "findUser" THEN 1
  ELSE IF pc = "compare" THEN 2
  ELSE IF pc = "findSession" THEN 3
  ELSE IF pc = "findExisting" THEN 4
  ELSE IF pc = "save" THEN 5
  ELSE 6

HasPair(recs, studentId, sessionId) ==
  \E i \in 1..Len(recs) :
    recs[i].studentId = studentId /\ recs[i].sessionId = sessionId

\* C15: a submission passes validation, key resolution, size check,
\* identity verification, session validation, duplicate check and
\* persistence in that order and ends with exactly one outcome: a request in
\* flight has no outcome and has passed every stage before its position; a
\* finished one has one outcome, that of the first stage it fails, having
\* passed all stages before it; a record is persisted only by a request
\* that passed every earlier stage, and every failure exit leaves the store
\* as it was.
C15_StagesInOrder ==
  /\ [](\A r \in Slots :
         req[r].op = "submit" =>
           IF req[r].pc # "done"
           THEN /\ req[r].resp = NoResp
                /\ req[r].created = 0
                /\ PassedUpTo(req[r], PassedAtPc(req[r].pc))
           ELSE /\ req[r].resp # NoResp
                /\ PassedUpTo(req[r], StageOfOutcome(req[r].resp) - 1)
                /\ FailsAt(req[r], StageOfOutcome(req[r].resp))
                /\ (req[r].created = 1 <=> req[r].resp = Resp(201, "created")))
  /\ [][\A r \in Slots :
          /\ (req[r].op = "submit" /\ req[r].pc # "done" /\ req'[r] # req[r]) =>
                /\ req'[r].op = "submit"
                /\ req'[r].body = req[r].body
                /\ req'[r].studentId = req[r].studentId
                /\ \/ req'[r].pc = "done"
                   \/ PcRank(req'[r].pc) = PcRank(req[r].pc) + 1
                /\ (req'[r].pc = "save" =>
                      ~HasPair(records, req[r].studentId, req[r].qrSession))
                /\ (req'[r].resp.msg = "duplicate" =>
                      HasPair(records, req[r].studentId, req[r].qrSession))
                /\ IF req'[r].resp = Resp(201, "created")
                   THEN /\ req[r].pc = "save"
                        /\ Len(records') = Len(records) + 1
                        /\ SubSeq(records', 1, Len(records)) = records
                   ELSE records' = records
          /\ (req[r].pc = "done" /\ req'[r] # req[r]) =>
                /\ req'[r].pc \in {"findUser", "done"}
                /\ req'[r].created = 0 /\ req'[r].compareCalls = 0
                /\ req'[r].face = "none"
                /\ records' = records]_vars

\* One submission was persisted and another ended at the duplicate check.
C15_Witness ==
  \E r, u \in Slots :
    /\ req[r].op = "submit" /\ req[r].resp = Resp(201, "created")
    /\ req[u].op = "submit" /\ req[u].resp = Resp(409, "duplicate")

\* C16: one submission calls compareFaces at most once, and only after the
\* validation, the key resolution and the size check have passed; a
\* comparison result is only ever the result of that one call.
C16_CompareOnceAfterChecks ==
  \A r \in Slots :
    req[r].op = "submit" =>
      /\ req[r].compareCalls <= 1
      /\ (req[r].compareCalls = 1 =>
            /\ BodyValid(req[r].body)
            /\ HasFaceKey(req[r].studentId)
            /\ req[r].body.faceImage <= MaxImageMB)
      /\ (req[r].face # "none" => req[r].compareCalls = 1)

\* A submission with the largest allowed image was compared and refused.
C16_Witness ==
  \E r \in Slots :
    /\ req[r].op = "submit" /\ req[r].pc = "done"
    /\ req[r].compareCalls = 1 /\ req[r].face = "nomatch"
    /\ req[r].body.faceImage = MaxImageMB

\* Slot r has just answered an updateAttendance request.
Updated(r) == req'[r] # req[r] /\ req'[r].op = "update"

\* C19: a record, once created, is never deleted and no field of it other
\* than status ever changes; a status changes only in a step of
\* updateAttendance that answers 200, only on the record the request
\* targets, only to the requested status, which is present, absent or late;
\* an update with an invalid status (400) or an unknown id (404) leaves the
\* store as it was.
C19_OnlyStatusChanges ==
  [][/\ Len(records') >= Len(records)
     /\ \A i \in 1..Len(records) :
          /\ [records'[i] EXCEPT !.status = records[i].status] = records[i]
          /\ records'[i].status # records[i].status =>
                /\ Len(records') = Len(records)
                /\ \A j \in 1..Len(records) : j # i => records'[j] = records[j]
                /\ records'[i].status \in {"present", "absent", "late"}
                /\ \E r \in Slots :
                     /\ Updated(r)
                     /\ req'[r].id = i
                     /\ req'[r].status = records'[i].status
                     /\ req'[r].resp.code = 200
     /\ \A r \in Slots :
          Updated(r) =>
            /\ (req'[r].status \notin {"present", "absent", "late"} =>
                  req'[r].resp.code = 400 /\ records' = records)
            /\ ((req'[r].status \in {"present", "absent", "late"}
                   /\ req'[r].id > Len(records)) =>
                  req'[r].resp.code = 404 /\ records' = records)
            /\ (req'[r].resp.code = 200 =>
                  /\ req'[r].id <= Len(records)
                  /\ records' =
                       [records EXCEPT ![req'[r].id].status = req'[r].status])
    ]_vars

\* One update has set the status of a record among several, another was
\* refused for its status.
C19_Witness ==
  \E r, u \in Slots :
    /\ req[r].op = "update" /\ req[r].resp.code = 200
    /\ Len(records) >= 2
    /\ records[req[r].id].status = "absent"
    /\ req[u].op = "update" /\ req[u].resp.code = 400

\* C17 (as claimed): every record that carries a session id refers to a
\* session that exists, whether submitAttendance or syncAttendance created
\* it.  The id may be the session's _id or its token.
C17_SessionExists ==
  \A i \in 1..Len(records) :
    records[i].sessionId # NoId =>
      \E q \in QRCodeSessions :
        records[i].sessionId \in {q._id, q.sessionId}

\* The flags of record i are those of the handler that built it.
FlagsMatchOrigin(i) ==
  /\ records[i].synced <=> records[i].origin = "sync"
  /\ records[i].manualEntry <=> records[i].origin = "manual"

\* Every success a sync request reports stands for a record of the claim's
\* student and session that carries the claim's captured time.
SyncKeepsCapturedTime ==
  \A r \in Slots :
    req[r].op = "sync" =>
      \A k \in 1..Len(req[r].syncResults) :
        req[r].syncResults[k].status = "success" =>
          \E i \in 1..Len(records) :
            /\ records[i].studentId = req[r].studentId
            /\ records[i].sessionId = req[r].attendances[k].sessionId
            /\ records[i].origin = "sync"
            /\ records[i].timestamp = req[r].attendances[k].timestamp

\* C20 (as claimed): in every reachable state, synced is true exactly for
\* the records syncAttendance created, which carry the claim's captured
\* time; manualEntry is true exactly for the records createManualAttendance
\* created; and the records submitAttendance created have status present.
C20_FlagsAndPresent ==
  /\ \A i \in 1..Len(records) :
       /\ FlagsMatchOrigin(i)
       /\ records[i].origin = "submit" => records[i].status = "present"
  /\ SyncKeepsCapturedTime

\* C20 (amended): the flags and the captured time as claimed, in every
\* reachable state; a record of submitAttendance has status present when it
\* is created, and carries the time of the request, not a later one.
C20_FlagsMatchOrigin ==
  /\ [](/\ \A i \in 1..Len(records) : FlagsMatchOrigin(i)
        /\ SyncKeepsCapturedTime)
  /\ [][\A i \in (Len(records) + 1)..Len(records') :
          records'[i].origin = "submit" =>
            /\ records'[i].status = "present"
            /\ records'[i].timestamp <= now]_vars

\* Records of all three origins exist, the synced one captured before the
\* present time, and the submitted one has had its status corrected.
C20_Witness ==
  \E i, j, k \in 1..Len(records) :
    /\ records[i].origin = "submit" /\ records[i].status = "late"
    /\ records[j].origin = "sync" /\ records[j].timestamp < now
    /\ records[k].origin = "manual"
    /\ \E r \in Slots : req[r].op = "sync" /\ req[r].resp.code = 200
                        /\ Len(req[r].syncResults) > 0

RecordsDone(r) ==
  req[r].op \in {"records", "recordsByClass"} /\ req[r].pc = "done"

\* The number of records among the first n of the store that belong to the
\* student of request r, and to its class when it names one.
OwnAmong(r, n) ==
  Cardinality({ i \in 1..n :
    /\ records[i].studentId = req[r].studentId
    /\ (req[r].op = "recordsByClass" => records[i].classId = req[r].classId) })

\* C13: a records request for page p and limit L returns exactly
\* min(L, max(0, T - (p-1)*L)) records and totalPages = ceil(T / L), T being
\* the number of the student's records (of the class, in the per-class
\* variant) in the store as each of the two reads found it.
C13_PageSize ==
  \A r \in Slots :
    RecordsDone(r) =>
      LET p == req[r].page
          L == req[r].limit
          T1 == OwnAmong(r, req[r].findAt)
          T2 == OwnAmong(r, req[r].countAt)
          left == IF T1 - (p - 1) * L > 0 THEN T1 - (p - 1) * L ELSE 0
      IN /\ Len(req[r].data) = IF L < left THEN L ELSE left
         /\ req[r].totalRecords = T2
         /\ req[r].totalPages * L >= T2
         /\ (req[r].totalPages - 1) * L < T2
         /\ req[r].totalPages >= 0

\* Page 2 with limit 2 of 3 records: 1 record and totalPages 2.
C13_Witness ==
  \E r \in Slots :
    /\ RecordsDone(r) /\ req[r].page = 2 /\ req[r].limit = 2
    /\ req[r].totalRecords = 3 /\ req[r].findAt = 3
    /\ Len(req[r].data) = 1 /\ req[r].totalPages = 2

MissedDone(r) == req[r].op = "missed" /\ req[r].pc = "done"

\* C12: the missed list of a request never contains an occurrence that has
\* no linked live session id.
C12_NoUnlinkedInMissed ==
  \A r \in Slots :
    (MissedDone(r) /\ req[r].hasList) =>
      \A session \in req[r].data : session.attendanceSessionId # NoId

\* A list was answered to a student who has no record at all, at a time
\* when an unlinked, past, not cancelled occurrence of an enrolled class
\* existed; the list holds a linked occurrence of that class.
C12_Witness ==
  \E r \in Slots :
    /\ MissedDone(r) /\ req[r].hasList
    /\ \E i \in ScheduleInstances :
         /\ i.attendanceSessionId = NoId /\ i.status # "cancelled"
         /\ i.scheduledDate <= req[r].heldTime
         /\ i.classId \in req[r].classIds
         /\ \E m \in req[r].data : m.classId = i.classId
    /\ \A k \in 1..Len(records) : records[k].studentId # req[r].studentId

\* C18 (as claimed): every missed-classes request answers the list that is
\* exactly the occurrences of the student's enrolled classes that are in
\* the past, not cancelled, linked to a session id, and whose session id is
\* not the session id of a record of the student (the store as the request
\* read it).
C18_MissedIsExact ==
  \A r \in Slots :
    MissedDone(r) =>
      /\ req[r].hasList
      /\ req[r].data =
           { i \in ScheduleInstances :
               /\ \E e \in enrollments :
                    e.studentId = req[r].studentId /\ e.classId = i.classId
               /\ i.scheduledDate <= req[r].heldTime
               /\ i.status # "cancelled"
               /\ i.attendanceSessionId # NoId
               /\ ~\E k \in 1..req[r].attendedAt :
                     /\ records[k].studentId = req[r].studentId
                     /\ records[k].sessionId = i.attendanceSessionId }

ReportDone(r) == req[r].op = "report" /\ req[r].pc = "done"

\* The records of student s, in the store as report request r saw it, that
\* the request matches, and those of them with a given status.
ReportMatches(r, s) ==
  { i \in 1..Len(req[r].seen) :
      /\ req[r].seen[i].studentId = s
      /\ req[r].seen[i].classId = req[r].classId
      /\ (req[r].startDate.present =>
            req[r].seen[i].timestamp >= req[r].startDate.n)
      /\ (req[r].endDate.present =>
            req[r].seen[i].timestamp <= req[r].endDate.n)
      /\ (req[r].studentId # Undefined => s = req[r].studentId) }
WithStatus(r, ids, status) == { i \in ids : req[r].seen[i].status = status }

\* C11 (as claimed): a report request answers, for each student with
\* matching records in the class, a row with presentDays, absentDays and
\* lateDays counted by record status, totalDays their sum, and percentage
\* presentDays / totalDays * 100, or 0 when totalDays is 0.
C11_ReportRows ==
  \A r \in Slots :
    ReportDone(r) =>
      \A s \in Students :
        LET ids == ReportMatches(r, s)
            p == Cardinality(WithStatus(r, ids, "present"))
            a == Cardinality(WithStatus(r, ids, "absent"))
            l == Cardinality(WithStatus(r, ids, "late"))
        IN ids # {} =>
             /\ req[r].hasReport
             /\ \E row \in req[r].report :
                  /\ row.studentId = s
                  /\ row.presentDays = p /\ row.absentDays = a
                  /\ row.lateDays = l /\ row.totalDays = p + a + l
                  /\ IF p + a + l = 0 THEN row.percentage.num = 0
                     ELSE row.percentage.num * (p + a + l)
                            = 100 * p * row.percentage.den

\* The sessions whose token is the session id a client holds.
SessionsOfToken(token) ==
  { q._id : q \in { x \in QRCodeSessions : x.sessionId = token } }

\* Student studentId has a record made by submitAttendance for the session
\* with this token.
SubmittedFor(studentId, token) ==
  \E i \in 1..Len(records) :
    /\ records[i].origin = "submit"
    /\ records[i].studentId = studentId
    /\ records[i].sessionId \in SessionsOfToken(token)

\* C21 (as claimed): when a student who marked attendance for a session
\* through submitAttendance later syncs a claim carrying the session id
\* the student submitted, the claim is skipped and the student has no
\* second record for that session.
C21_ResyncSkipped ==
  \A r \in Slots :
    (SyncDone(r) /\ req[r].resp.code = 200) =>
      \A k \in 1..Len(req[r].attendances) :
        SubmittedFor(req[r].studentId, req[r].attendances[k].sessionId) =>
          /\ req[r].syncResults[k].status = "skipped"
          /\ ~\E j \in 1..Len(records) :
                /\ records[j].origin = "sync"
                /\ records[j].studentId = req[r].studentId
                /\ records[j].sessionId = req[r].attendances[k].sessionId

\* Sync request r, alone in writing, found no record of its student for
\* session id sid when it arrived: the records before the ones it created
\* hold none.
NoPairBefore(r, sid) ==
  ~\E i \in 1..(Len(records) - req[r].created) :
      records[i].studentId = req[r].studentId /\ records[i].sessionId = sid

\* C23: when the first two claims of one sync batch carry the same
\* sessionId and the student had no record for it beforehand, the request
\* never creates two records for it, and it ends either at a store outage
\* or with 200, the first claim success, the second skipped and exactly
\* one record of the session.
C23_SameSessionTwice ==
  \A r \in Slots :
    ( /\ req[r].op = "sync"
      /\ Len(req[r].attendances) >= 2
      /\ req[r].attendances[1].sessionId = req[r].attendances[2].sessionId
      /\ NoPairBefore(r, req[r].attendances[1].sessionId) ) =>
      LET sid == req[r].attendances[1].sessionId
      IN /\ PairCount(req[r].studentId, sid) <= 1
         /\ req[r].pc = "done" =>
              \/ req[r].resp = Resp(500, "unavailable")
              \/ /\ req[r].resp.code = 200
                 /\ req[r].syncResults[1].status = "success"
                 /\ req[r].syncResults[2].status = "skipped"
                 /\ PairCount(req[r].studentId, sid) = 1

\* A batch of two claims of one session was answered, success then
\* skipped, next to an earlier record of the student.
C23_Witness ==
  \E r \in Slots :
    /\ SyncDone(r) /\ req[r].resp.code = 200
    /\ Len(req[r].attendances) = 2
    /\ req[r].attendances[1].sessionId = req[r].attendances[2].sessionId
    /\ req[r].syncResults[1].status = "success"
    /\ req[r].syncResults[2].status = "skipped"
    /\ req[r].created = 1
    /\ Len(records) >= 2

\* C22 (as claimed): a reported summary whose two counts were read from the
\* same store state has attended <= held, so missed is not negative and the
\* percentage is at most 100, whatever mix of writers made the records.
C22_AttendedAtMostHeld ==
  \A r \in Slots :
    (SummaryDone(r) /\ req[r].hasSummary /\ req[r].heldAt = req[r].attendedAt)
    => /\ req[r].summary.attended <= req[r].summary.held
       /\ req[r].summary.missed >= 0
       /\ req[r].summary.percentage <= 100 * 100

\* C24 (as claimed): the stats of every class-attendance answer satisfy
\* 0 <= absent <= totalEnrolled.
C24_AbsentInRange ==
  \A r \in Slots :
    (req[r].op = "byClass" /\ req[r].pc = "done") =>
      /\ 0 <= req[r].stats.absent
      /\ req[r].stats.absent <= req[r].stats.totalEnrolled

\* Registration r got as far as User.create and has been answered.
TriedCreate(r) ==
  /\ req[r].op = "register" /\ req[r].pc = "done"
  /\ req[r].resp.code \in {201, 500}
  /\ req[r].body.role \in {"teacher", "admin"}

\* C25: no two users ever share an email.  Of two registrations of one
\* email that both passed the existence check, while no user held it,
\* before either created, exactly one creates a user; a profile update
\* never leaves a user with an email another user already held, and a
\* step adds at most one user, with an email no user held.
C25_UniqueEmail ==
  /\ [](/\ \A i, j \in 1..Len(accounts) :
             i # j => accounts[i].email # accounts[j].email
        /\ \A r, u \in Slots :
             ( /\ r # u /\ TriedCreate(r) /\ TriedCreate(u)
               /\ req[r].freeAtCheck /\ req[u].freeAtCheck
               /\ req[r].rival /\ req[u].rival
               /\ ToLowerCase(req[r].body.email)
                    = ToLowerCase(req[u].body.email) )
             => req[r].created + req[u].created = 1)
  /\ [][/\ Len(accounts') <= Len(accounts) + 1
        /\ \A i \in 1..Len(accounts') :
             IF i > Len(accounts)
             THEN \A j \in 1..Len(accounts) :
                    accounts[j].email # accounts'[i].email
             ELSE accounts'[i].email # accounts[i].email =>
                    \A j \in 1..Len(accounts) :
                      accounts[j].email # accounts'[i].email]_vars

\* Two registrations of one email both passed the check; one created the
\* user, the other was refused by the index.
C25_Witness ==
  \E r, u \in Slots :
    /\ r # u /\ TriedCreate(r) /\ TriedCreate(u)
    /\ req[r].freeAtCheck /\ req[u].freeAtCheck
    /\ req[r].rival /\ req[u].rival
    /\ ToLowerCase(req[r].body.email) = ToLowerCase(req[u].body.email)
    /\ req[r].resp = Resp(201, "created")
    /\ req[u].resp = Resp(500, "E11000")


====
